---- MODULE Spec2Model ----
(***************************************************************************)
(* Trading Agent League: the backtest simulation core.                     *)
(*                                                                         *)
(*   engine/order_engine.py   OrderEngine (cash, position, trades, equity) *)
(*   engine/risk.py           RiskManager (daily drawdown guard, sizing)   *)
(*   engine/agents.py         buy_hold / sma_crossover / rsi_mean_reversion*)
(*   engine/market_replay.py  run_backtest, run_league                     *)
(*                                                                         *)
(* Python floats are modelled as exact rationals [n, d] in lowest terms    *)
(* (d > 0).  Every arithmetic operator below computes the exact value of   *)
(* the Python expression; rounding to the nearest double is not modelled.  *)
(*                                                                         *)
(* The integers of a rational are 32-bit, so no [n, d] lies in (0, 1e-12]. *)
(* To reach the quantities the engine's 1e-12 snap is about, an engine     *)
(* carries the unit its quantities are counted in (qty_unit): 1, or 1e-12  *)
(* with prices per 1e-12.  The engine's arithmetic is the same in either   *)
(* unit; only the constant 1e-12 reads differently (as 1).                 *)
(***************************************************************************)
EXTENDS Integers, Sequences, FiniteSets, TLC

VARIABLES
    order_engine,   \* the OrderEngine of the current run
    risk_manager,   \* the RiskManager of the current run
    last_call,      \* arguments and outcome of the last call made
    backtest,       \* run_backtest: its arguments, agent and loop position
    signal_log,     \* the Signal on_bar returned for each bar processed
    league          \* run_league: its arguments, loop position and rows

vars == <<order_engine, risk_manager, last_call, backtest, signal_log, league>>

-----------------------------------------------------------------------------
(* Exact rational arithmetic standing for Python float arithmetic.         *)

Abs(x) == IF x < 0 THEN -x ELSE x

RECURSIVE Gcd(_, _)
Gcd(a, b) == IF b = 0 THEN a ELSE Gcd(b, a % b)

\* the rational n/d in lowest terms with a positive denominator
R(n, d) ==
    LET s == IF d < 0 THEN -1 ELSE 1
        g == Gcd(Abs(n), Abs(d))
    IN  [n |-> (s * n) \div g, d |-> (s * d) \div g]

Num(k) == [n |-> k, d |-> 1]
Zero == Num(0)
One == Num(1)

Neg(a) == [n |-> -a.n, d |-> a.d]

Add(a, b) ==
    LET g == Gcd(a.d, b.d)
    IN  R(a.n * (b.d \div g) + b.n * (a.d \div g), (a.d \div g) * b.d)

Sub(a, b) == Add(a, Neg(b))

Mul(a, b) ==
    LET g1 == Gcd(Abs(a.n), b.d)
        g2 == Gcd(Abs(b.n), a.d)
    IN  IF a.n = 0 \/ b.n = 0 THEN Zero
        ELSE R((a.n \div g1) * (b.n \div g2), (a.d \div g2) * (b.d \div g1))

\* a / b for b # 0 (Python raises ZeroDivisionError when b = 0; every use
\* below tests for that case first)
Div(a, b) == Mul(a, R(b.d, b.n))

Sign(a) == IF a.n > 0 THEN 1 ELSE IF a.n < 0 THEN -1 ELSE 0

Lt(a, b) == Sign(Sub(a, b)) < 0
Le(a, b) == Sign(Sub(a, b)) <= 0
Gt(a, b) == Lt(b, a)
Ge(a, b) == Le(b, a)

Min2(a, b) == IF Le(a, b) THEN a ELSE b
Max2(a, b) == IF Ge(a, b) THEN a ELSE b

\* the units a quantity can be counted in
WholeUnit == "1"
PicoUnit == "1e-12"

\* a * qty_unit <= 1e-12; for the unit 1 computed without leaving 32-bit
\* integers: n/d <= 10^-12  <=>  n * 10^6 <= d \div 10^6
LeSnapEps(a, qty_unit) ==
    IF qty_unit = PicoUnit THEN a.n <= a.d
    ELSE IF a.n <= 0 THEN TRUE
    ELSE IF a.n > 2000 THEN FALSE
    ELSE a.n * 1000000 <= a.d \div 1000000

-----------------------------------------------------------------------------
(* engine/order_engine.py                                                  *)

BpsDivisor == 10000

\* OrderEngine.__init__ (initial_capital > 0 is checked by the caller of
\* this operator: the constructor raises ValueError otherwise)
OrderEngine(initial_capital, slippage_bps, fee_bps) ==
    [initial_capital     |-> initial_capital,
     cash                |-> initial_capital,
     position_qty        |-> Zero,
     position_cost_basis |-> Zero,
     slippage_bps        |-> slippage_bps,
     fee_bps             |-> fee_bps,
     qty_unit            |-> WholeUnit,
     trades              |-> << >>,
     equity_points       |-> << >>]

fee_rate(e) == R(e.fee_bps, BpsDivisor)

slippage_rate(e) == R(e.slippage_bps, BpsDivisor)

\* mutant of total_equity: the position is left out of the mark
total_equity_cash_only(e, mark_price) == e.cash

total_equity(e, mark_price) == Add(e.cash, Mul(e.position_qty, mark_price))

\* mutant of mark_to_market: a point is appended only for a timestamp at
\* which a Trade was recorded
mark_to_market_on_fill(e, timestamp, close_price) ==
    IF \E k \in 1..Len(e.trades) : e.trades[k].timestamp = timestamp
    THEN [e EXCEPT !.equity_points = Append(@,
            [timestamp    |-> timestamp,
             equity       |-> total_equity(e, close_price),
             cash         |-> e.cash,
             position_qty |-> e.position_qty,
             close        |-> close_price])]
    ELSE e

mark_to_market(e, timestamp, close_price) ==
    [e EXCEPT !.equity_points = Append(@,
        [timestamp    |-> timestamp,
         equity       |-> total_equity(e, close_price),
         cash         |-> e.cash,
         position_qty |-> e.position_qty,
         close        |-> close_price])]

\* str.lower() on the side values the model feeds in
Lower(side) ==
    CASE side = "Buy"  -> "buy"
      [] side = "Sell" -> "sell"
      [] OTHER         -> side

\* mutant of ValidSides: "short" is let through as a side
ValidSides_with_short == {"buy", "sell", "short"}

\* "if side not in {'buy', 'sell'}"
ValidSides == {"buy", "sell"}

\* mutant of NoFill: the empty-fill check is dropped
NoFill_never(trade_qty) == FALSE

\* trade_qty <= 0: the order fills nothing and execute_order returns None
NoFill(trade_qty) == Le(trade_qty, Zero)

\* mutant of BuyTradeQty: the requested quantity is bought unclamped
BuyTradeQty_requested(qty, affordable_qty) == qty

\* trade_qty = min(qty, affordable_qty)
BuyTradeQty(qty, affordable_qty) == Min2(qty, affordable_qty)

\* mutant of SellTradeQty: the requested quantity is sold unclamped
SellTradeQty_unclamped(qty, position_qty) == qty

\* trade_qty = min(qty, self.position_qty)
SellTradeQty(qty, position_qty) == Min2(qty, position_qty)

\* mutant of BasisAfterBuy: the cost of a buy is not capitalised
BasisAfterBuy_dropped(position_cost_basis, total_cost) == position_cost_basis

\* self.position_cost_basis += total_cost
BasisAfterBuy(position_cost_basis, total_cost) == Add(position_cost_basis, total_cost)

\* the buy branch of execute_order; qty > 0 and fill_price # 0 here
ExecuteBuy(e, timestamp, qty, price) ==
    LET fill_price     == Mul(price, Add(One, slippage_rate(e)))
        affordable_qty == Div(e.cash, Mul(fill_price, Add(One, fee_rate(e))))
        trade_qty      == BuyTradeQty(qty, affordable_qty)
        notional       == Mul(trade_qty, fill_price)
        fee            == Mul(notional, fee_rate(e))
        total_cost     == Add(notional, fee)
        cash2          == Sub(e.cash, total_cost)
        qty2           == Add(e.position_qty, trade_qty)
    IN  IF NoFill(trade_qty) THEN e
        ELSE [e EXCEPT
                !.cash = cash2,
                !.position_qty = qty2,
                !.position_cost_basis = BasisAfterBuy(@, total_cost),
                !.trades = Append(@,
                    [timestamp      |-> timestamp,
                     side           |-> "buy",
                     qty            |-> trade_qty,
                     fill_price     |-> fill_price,
                     notional       |-> notional,
                     fee            |-> fee,
                     realized_pnl   |-> Zero,
                     cash_after     |-> cash2,
                     position_after |-> qty2])]

\* the sell branch of execute_order; qty > 0 here
ExecuteSell(e, timestamp, qty, price) ==
    LET trade_qty     == SellTradeQty(qty, e.position_qty)
        fill_price    == Mul(price, Sub(One, slippage_rate(e)))
        notional      == Mul(trade_qty, fill_price)
        fee           == Mul(notional, fee_rate(e))
        proceeds      == Sub(notional, fee)
        avg_cost      == IF Gt(e.position_qty, Zero)
                         THEN Div(e.position_cost_basis, e.position_qty)
                         ELSE Zero
        cost_released == Mul(avg_cost, trade_qty)
        realized_pnl  == Sub(proceeds, cost_released)
        cash2         == Add(e.cash, proceeds)
        qty1          == Sub(e.position_qty, trade_qty)
        basis1        == Sub(e.position_cost_basis, cost_released)
        snap          == LeSnapEps(qty1, e.qty_unit)
        qty2          == IF snap THEN Zero ELSE qty1
        basis2        == IF snap THEN Zero ELSE basis1
    IN  IF NoFill(trade_qty) THEN e
        ELSE [e EXCEPT
                !.cash = cash2,
                !.position_qty = qty2,
                !.position_cost_basis = basis2,
                !.trades = Append(@,
                    [timestamp      |-> timestamp,
                     side           |-> "sell",
                     qty            |-> trade_qty,
                     fill_price     |-> fill_price,
                     notional       |-> notional,
                     fee            |-> fee,
                     realized_pnl   |-> realized_pnl,
                     cash_after     |-> cash2,
                     position_after |-> qty2])]

\* what execute_order raises, "" when it returns normally
ExecuteRaises(e, side, qty, price) ==
    IF Le(qty, Zero) THEN ""
    ELSE IF Lower(side) \notin ValidSides THEN "ValueError"
    ELSE IF Lower(side) = "buy"
            /\ Mul(Mul(price, Add(One, slippage_rate(e))),
                   Add(One, fee_rate(e))) = Zero
         THEN "ZeroDivisionError"
    ELSE ""

\* OrderEngine.execute_order: the engine after the call (unchanged when the
\* call is a no-op or raises)
execute_order(e, timestamp, side, qty, price) ==
    IF Le(qty, Zero) THEN e
    ELSE IF ExecuteRaises(e, side, qty, price) # "" THEN e
    ELSE IF Lower(side) = "buy" THEN ExecuteBuy(e, timestamp, qty, price)
    ELSE ExecuteSell(e, timestamp, qty, price)

-----------------------------------------------------------------------------
(* engine/risk.py                                                          *)

\* timestamps are whole hours since the start of the data
HoursPerDay == 24

\* pd.Timestamp(timestamp).normalize(): midnight of the timestamp's day
Normalize(timestamp) == timestamp - (timestamp % HoursPerDay)

\* Python None for _current_day (timestamps are >= 0)
None == -1

\* Python None for _day_start_equity
NoneR == [n |-> 0, d |-> 0]

\* max(equity, 1e-9), computed without leaving 32-bit integers:
\* n/d >= 10^-9  <=>  n * 10^9 >= d
FloorDayStart(equity) ==
    LET ge == IF equity.n <= 0 THEN FALSE
              ELSE IF equity.n >= 3 THEN TRUE
              ELSE equity.n * 1000000000 >= equity.d
    IN  IF ge THEN equity ELSE [n |-> 1, d |-> 1000000000]

\* RiskConfig defaults
DefaultMaxPositionPct == One
DefaultMaxDailyDrawdownPct == R(5, 100)
DefaultMinTradeNotional == Num(10)

RiskConfig(max_position_pct, max_daily_drawdown_pct, min_trade_notional) ==
    [max_position_pct       |-> max_position_pct,
     max_daily_drawdown_pct |-> max_daily_drawdown_pct,
     min_trade_notional     |-> min_trade_notional]

\* the range checks of RiskManager.__init__
ValidRiskConfig(config) ==
    /\ Lt(Zero, config.max_position_pct)
    /\ Le(config.max_position_pct, One)
    /\ Lt(Zero, config.max_daily_drawdown_pct)
    /\ Lt(config.max_daily_drawdown_pct, One)

RiskManager(config) ==
    [config           |-> config,
     current_day      |-> None,
     day_start_equity |-> NoneR,
     guard_triggered  |-> FALSE]

\* mutant of GuardAfter: the guard follows the current day return
GuardAfter_unlatched(guard_triggered, breached) == breached

\* if day_return <= -max_daily_drawdown_pct: self.guard_triggered = True
GuardAfter(guard_triggered, breached) == IF breached THEN TRUE ELSE guard_triggered

register_equity(r, timestamp, equity) ==
    LET bar_day == Normalize(timestamp)
    IN  IF r.current_day = None \/ bar_day # r.current_day
        THEN [r EXCEPT !.current_day = bar_day,
                       !.day_start_equity = FloorDayStart(equity),
                       !.guard_triggered = FALSE]
        ELSE LET start == IF r.day_start_equity = NoneR
                          THEN FloorDayStart(equity)
                          ELSE r.day_start_equity
                 day_return == Sub(Div(equity, start), One)
             IN  [r EXCEPT !.day_start_equity = start,
                           !.guard_triggered =
                               GuardAfter(@, Le(day_return,
                                   Neg(r.config.max_daily_drawdown_pct)))]

\* mutant of can_add_risk: the guard is never consulted
can_add_risk_always(r) == TRUE

can_add_risk(r) == ~r.guard_triggered

\* mutant of ClampFraction: the fraction is capped at one half
ClampFraction_half(requested_fraction) == Max2(Zero, Min2(R(1, 2), requested_fraction))

\* max(0.0, min(1.0, requested_fraction))
ClampFraction(requested_fraction) == Max2(Zero, Min2(One, requested_fraction))

\* mutant of TargetNotional: available cash is left out of the minimum
TargetNotional_no_cash(r, requested_fraction, price, cash, equity, current_position_qty) ==
    Min2(Mul(equity, ClampFraction(requested_fraction)),
         Max2(Zero, Sub(Mul(equity, r.config.max_position_pct),
                        Mul(current_position_qty, price))))

\* min(requested_notional, remaining_notional_capacity, cash)
\* mutant of TargetNotional: the capacity left under max_position_pct is
\* left out of the minimum
TargetNotional_no_cap(r, requested_fraction, price, cash, equity, current_position_qty) ==
    Min2(Mul(equity, ClampFraction(requested_fraction)), cash)

TargetNotional(r, requested_fraction, price, cash, equity, current_position_qty) ==
    LET max_position_notional == Mul(equity, r.config.max_position_pct)
        current_notional == Mul(current_position_qty, price)
        remaining_notional_capacity ==
            Max2(Zero, Sub(max_position_notional, current_notional))
        requested_notional == Mul(equity, ClampFraction(requested_fraction))
    IN  Min2(Min2(requested_notional, remaining_notional_capacity), cash)

size_buy_qty(r, requested_fraction, price, cash, equity, current_position_qty) ==
    IF Le(price, Zero) \/ Le(cash, Zero) \/ Le(equity, Zero) THEN Zero
    ELSE IF ClampFraction(requested_fraction) = Zero THEN Zero
    ELSE LET target_notional ==
                 TargetNotional(r, requested_fraction, price, cash, equity,
                                current_position_qty)
         IN  IF Lt(target_notional, r.config.min_trade_notional) THEN Zero
             ELSE Div(target_notional, price)

\* mutant of size_sell_qty: half of the requested quantity is sold
size_sell_qty_half(requested_fraction, current_position_qty) ==
    IF Le(current_position_qty, Zero) THEN Zero
    ELSE IF ClampFraction(requested_fraction) = Zero THEN Zero
    ELSE Mul(Mul(current_position_qty, ClampFraction(requested_fraction)), R(1, 2))

size_sell_qty(requested_fraction, current_position_qty) ==
    IF Le(current_position_qty, Zero) THEN Zero
    ELSE IF ClampFraction(requested_fraction) = Zero THEN Zero
    ELSE Mul(current_position_qty, ClampFraction(requested_fraction))

-----------------------------------------------------------------------------
(* engine/agents.py                                                        *)

\* float('nan')
NaN == [n |-> 0, d |-> 0]

Signal(action, size) == [action |-> action, size |-> size]

HOLD_SIGNAL == Signal("hold", Zero)

\* the close column of the bar data
Closes(data) == [j \in 1..Len(data) |-> data[j].close]

RECURSIVE SumRange(_, _, _)
SumRange(x, lo, hi) == IF lo > hi THEN Zero ELSE Add(x[hi], SumRange(x, lo, hi - 1))

\* mutant of RollingMean: the undefined warm-up values are filled with 0
RollingMean_zero_filled(close, window) ==
    [j \in 1..Len(close) |->
        IF j < window THEN Zero
        ELSE Div(SumRange(close, j - window + 1, j), Num(window))]

\* close.rolling(window).mean(): NaN until window bars are available
RollingMean(close, window) ==
    [j \in 1..Len(close) |->
        IF j < window THEN NaN
        ELSE Div(SumRange(close, j - window + 1, j), Num(window))]

\* close.diff(): NaN for the first bar
Diff(close) ==
    [j \in 1..Len(close) |-> IF j = 1 THEN NaN ELSE Sub(close[j], close[j - 1])]

\* delta.clip(lower=0.0)
Gains(delta) ==
    [j \in 1..Len(delta) |-> IF delta[j] = NaN THEN NaN ELSE Max2(delta[j], Zero)]

\* -delta.clip(upper=0.0)
Losses(delta) ==
    [j \in 1..Len(delta) |-> IF delta[j] = NaN THEN NaN ELSE Neg(Min2(delta[j], Zero))]

\* the recursion of ewm(alpha, adjust=False).mean() over a series whose only
\* NaN is its first element: y[2] = x[2], y[t] = (1 - alpha) y[t-1] + alpha x[t]
RECURSIVE EwmAt(_, _, _)
EwmAt(x, alpha, t) ==
    IF t = 2 THEN x[2]
    ELSE Add(Mul(Sub(One, alpha), EwmAt(x, alpha, t - 1)), Mul(alpha, x[t]))

\* mutant of Ewm: min_periods is ignored, the mean is defined from the
\* first non-NaN observation on
Ewm_no_min_periods(x, alpha, min_periods) ==
    [t \in 1..Len(x) |-> IF t = 1 THEN NaN ELSE EwmAt(x, alpha, t)]

\* x.ewm(alpha=alpha, adjust=False, min_periods=min_periods).mean(): NaN until
\* min_periods non-NaN observations have been seen
Ewm(x, alpha, min_periods) ==
    [t \in 1..Len(x) |->
        IF t = 1 \/ t - 1 < min_periods THEN NaN ELSE EwmAt(x, alpha, t)]

\* the RSI series of RSIMeanReversionAgent.prepare
RsiSeries(close, period) ==
    LET delta    == Diff(close)
        avg_gain == Ewm(Gains(delta), R(1, period), period)
        avg_loss == Ewm(Losses(delta), R(1, period), period)
    IN  [t \in 1..Len(close) |->
            IF avg_gain[t] = NaN \/ avg_loss[t] = NaN \/ avg_loss[t] = Zero
            THEN Num(50)
            ELSE LET rs == Div(avg_gain[t], avg_loss[t])
                 IN  Sub(Num(100), Div(Num(100), Add(One, rs)))]

\* a series attribute that prepare has not set yet
NoSeries == << >>

BuyAndHoldAgent == [name |-> "buy_hold", entered |-> FALSE]

\* the constructor raises ValueError when short_window >= long_window
SMACrossoverAgent(short_window, long_window) ==
    [name         |-> "sma_crossover",
     short_window |-> short_window,
     long_window  |-> long_window,
     sma_short    |-> NoSeries,
     sma_long     |-> NoSeries]

\* the constructor raises ValueError when lower >= upper
RSIMeanReversionAgent(period, lower, upper, buy_size) ==
    [name     |-> "rsi_mean_reversion",
     period   |-> period,
     lower    |-> lower,
     upper    |-> upper,
     buy_size |-> buy_size,
     rsi      |-> NoSeries]

DefaultShortWindow == 20
DefaultLongWindow == 50
DefaultRsiPeriod == 14
DefaultRsiLower == Num(30)
DefaultRsiUpper == Num(70)
DefaultRsiBuySize == R(1, 2)

StrategyNames == <<"buy_hold", "sma_crossover", "rsi_mean_reversion">>

\* get_baseline_agents(): one fresh agent per name, in this key order
get_baseline_agents ==
    [name \in {StrategyNames[j] : j \in 1..Len(StrategyNames)} |->
        CASE name = "buy_hold" -> BuyAndHoldAgent
          [] name = "sma_crossover" ->
                 SMACrossoverAgent(DefaultShortWindow, DefaultLongWindow)
          [] name = "rsi_mean_reversion" ->
                 RSIMeanReversionAgent(DefaultRsiPeriod, DefaultRsiLower,
                                       DefaultRsiUpper, DefaultRsiBuySize)]

\* mutant of reset: the entered flag survives from the previous run
reset_keeps_entered(agent) == agent

\* agent.reset()
reset(agent) ==
    IF agent.name = "buy_hold" THEN [agent EXCEPT !.entered = FALSE] ELSE agent

\* agent.prepare(data)
prepare(agent, data) ==
    CASE agent.name = "sma_crossover" ->
             [agent EXCEPT
                 !.sma_short = RollingMean(Closes(data), agent.short_window),
                 !.sma_long  = RollingMean(Closes(data), agent.long_window)]
      [] agent.name = "rsi_mean_reversion" ->
             [agent EXCEPT !.rsi = RsiSeries(Closes(data), agent.period)]
      [] OTHER -> agent

\* mutant of BuyHoldEnters: the entered flag is not consulted
BuyHoldEnters_any_time(agent, position_qty) == Le(position_qty, Zero)

\* BuyAndHoldAgent.on_bar: "if not self.entered and position_qty <= 0"
BuyHoldEnters(agent, position_qty) == ~agent.entered /\ Le(position_qty, Zero)

\* agent.on_bar(index, row, position_qty) with index counted from 0: the
\* Signal returned and the agent afterwards
on_bar(agent, index, position_qty) ==
    CASE agent.name = "buy_hold" ->
             IF BuyHoldEnters(agent, position_qty)
             THEN [signal |-> Signal("buy", One),
                   agent  |-> [agent EXCEPT !.entered = TRUE]]
             ELSE [signal |-> HOLD_SIGNAL, agent |-> agent]
      [] agent.name = "sma_crossover" ->
             IF agent.sma_short = NoSeries \/ agent.sma_long = NoSeries
             THEN [signal |-> HOLD_SIGNAL, agent |-> agent]
             ELSE LET fast == agent.sma_short[index + 1]
                      slow == agent.sma_long[index + 1]
                  IN  IF fast = NaN \/ slow = NaN
                      THEN [signal |-> HOLD_SIGNAL, agent |-> agent]
                      ELSE IF Gt(fast, slow) /\ Le(position_qty, Zero)
                      THEN [signal |-> Signal("buy", One), agent |-> agent]
                      ELSE IF Lt(fast, slow) /\ Gt(position_qty, Zero)
                      THEN [signal |-> Signal("sell", One), agent |-> agent]
                      ELSE [signal |-> HOLD_SIGNAL, agent |-> agent]
      [] agent.name = "rsi_mean_reversion" ->
             IF agent.rsi = NoSeries
             THEN [signal |-> HOLD_SIGNAL, agent |-> agent]
             ELSE LET rsi_value == agent.rsi[index + 1]
                  IN  IF Lt(rsi_value, agent.lower) /\ Le(position_qty, Zero)
                      THEN [signal |-> Signal("buy", agent.buy_size), agent |-> agent]
                      ELSE IF Gt(rsi_value, agent.upper) /\ Gt(position_qty, Zero)
                      THEN [signal |-> Signal("sell", One), agent |-> agent]
                      ELSE [signal |-> HOLD_SIGNAL, agent |-> agent]

-----------------------------------------------------------------------------
(* engine/market_replay.py: run_backtest                                   *)

\* mutant of SellAllowed: sells are gated by the drawdown guard like buys
SellAllowed_guarded(r) == can_add_risk(r)

\* "elif action == 'sell'": the sell branch does not consult the guard
SellAllowed(r) == TRUE

\* the body of the per-bar loop of run_backtest for bar number index
\* (counted from 0) on run state st = [order_engine, risk_manager, agent,
\* signals]
BarStep(st, data, index) ==
    LET row           == data[index + 1]
        timestamp     == row.timestamp
        close_price   == row.close
        equity_before == total_equity(st.order_engine, close_price)
        risk2         == register_equity(st.risk_manager, timestamp, equity_before)
        decided       == on_bar(st.agent, index, st.order_engine.position_qty)
        signal        == decided.signal
        action        == signal.action
        engine2 ==
            IF action = "buy" /\ can_add_risk(risk2)
            THEN execute_order(st.order_engine, timestamp, "buy",
                     size_buy_qty(risk2, signal.size, close_price,
                                  st.order_engine.cash, equity_before,
                                  st.order_engine.position_qty),
                     close_price)
            ELSE IF action = "sell" /\ SellAllowed(risk2)
            THEN execute_order(st.order_engine, timestamp, "sell",
                     size_sell_qty(signal.size, st.order_engine.position_qty),
                     close_price)
            ELSE st.order_engine
    IN  [order_engine |-> mark_to_market(engine2, timestamp, close_price),
         risk_manager |-> risk2,
         agent        |-> decided.agent,
         signals      |-> Append(st.signals, signal)]

\* lines 100-108: fresh OrderEngine and RiskManager, agent.reset(),
\* agent.prepare(data)
BacktestStart(data, agent, initial_capital, slippage_bps, fee_bps, risk_config) ==
    [order_engine |-> OrderEngine(initial_capital, slippage_bps, fee_bps),
     risk_manager |-> RiskManager(risk_config),
     agent        |-> prepare(reset(agent), data),
     signals      |-> << >>]

\* the loop "for i, row in enumerate(data.itertuples(index=False))": the run
\* state after the bars index, index + 1, ... of data (the state after each
\* bar is bound as a value before the next bar reads it)
RECURSIVE RunBars(_, _, _)
RunBars(st, data, index) ==
    IF index >= Len(data) THEN st
    ELSE CHOOSE final \in {RunBars(next, data, index + 1) :
                               next \in {BarStep(st, data, index)}} : TRUE

RECURSIVE CumMax(_, _)
CumMax(x, j) == IF j = 1 THEN x[1] ELSE Max2(CumMax(x, j - 1), x[j])

RECURSIVE MinOf(_, _)
MinOf(x, j) == IF j = 1 THEN x[1] ELSE Min2(MinOf(x, j - 1), x[j])

\* compute_metrics without the Sharpe ratio (its square root is not a
\* rational); equity is positive wherever the model calls this
compute_metrics(equity_points, trades, initial_capital) ==
    IF Len(equity_points) = 0
    THEN [total_return |-> Zero, max_drawdown |-> Zero, win_rate |-> Zero]
    ELSE LET equity   == [j \in 1..Len(equity_points) |-> equity_points[j].equity]
             final    == equity[Len(equity)]
             drawdown == [j \in 1..Len(equity) |->
                             Sub(Div(equity[j], CumMax(equity, j)), One)]
             sells    == {j \in 1..Len(trades) : trades[j].side = "sell"}
             wins     == {j \in sells : Gt(trades[j].realized_pnl, Zero)}
         IN  [total_return |-> Sub(Div(final, initial_capital), One),
              max_drawdown |-> Neg(MinOf(drawdown, Len(drawdown))),
              win_rate     |-> IF sells = {} THEN Zero
                               ELSE R(Cardinality(wins), Cardinality(sells))]

\* the BacktestResult built from the final run state
BacktestResult(st, initial_capital) ==
    [strategy     |-> st.agent.name,
     trades       |-> st.order_engine.trades,
     equity_curve |-> st.order_engine.equity_points,
     metrics      |-> compute_metrics(st.order_engine.equity_points,
                                      st.order_engine.trades, initial_capital)]

\* run_backtest as a function: the result and the agent object afterwards
run_backtest(data, agent, initial_capital, slippage_bps, fee_bps, risk_config) ==
    LET st == RunBars(BacktestStart(data, agent, initial_capital, slippage_bps,
                                    fee_bps, risk_config), data, 0)
    IN  [result |-> BacktestResult(st, initial_capital), agent |-> st.agent]

-----------------------------------------------------------------------------
(* Bounds and input sets                                                   *)

MaxTrades == 2
MaxPoints == 1

Capitals == {Num(1000)}
SlippageBpsSet == {0, 20000}
FeeBpsSet == {0, 2500}
Sides == {"buy", "Sell", "short"}
Qtys == {Num(-1), Zero, R(5, 2), Num(3), Num(1000000)}
QtyUnits == {WholeUnit, PicoUnit}
Prices == {Zero, Num(10)}
MarkPrices == {Num(20)}
EngineTimestamps == {9}

RiskConfigs ==
    {RiskConfig(p, dd, m) :
        p \in {One, R(1, 2)},
        dd \in {DefaultMaxDailyDrawdownPct, R(1, 2)},
        m \in {DefaultMinTradeNotional, Zero}}

-----------------------------------------------------------------------------
(* Spec: one OrderEngine driven by arbitrary execute_order and             *)
(* mark_to_market calls.                                                   *)

\* values of the run_backtest and run_league variables while neither runs
IdleBacktest == [pc |-> "idle"]
IdleLeague == [pc |-> "idle"]

Idle ==
    /\ backtest = IdleBacktest
    /\ signal_log = << >>
    /\ league = IdleLeague

InitEngine ==
    /\ Idle
    /\ order_engine \in {[OrderEngine(c, s, f) EXCEPT !.qty_unit = u] :
                            c \in Capitals, s \in SlippageBpsSet, f \in FeeBpsSet,
                            u \in QtyUnits}
    /\ risk_manager = RiskManager(RiskConfig(DefaultMaxPositionPct,
                                             DefaultMaxDailyDrawdownPct,
                                             DefaultMinTradeNotional))
    /\ last_call = [op |-> "init"]

ExecuteOrder(timestamp, side, qty, price) ==
    /\ Len(order_engine.trades) < MaxTrades
    /\ order_engine' = execute_order(order_engine, timestamp, side, qty, price)
    /\ last_call' = [op       |-> "execute_order",
                     side     |-> side,
                     qty      |-> qty,
                     price    |-> price,
                     raised   |-> ExecuteRaises(order_engine, side, qty, price),
                     returned |-> IF Len(order_engine'.trades) > Len(order_engine.trades)
                                  THEN "Trade" ELSE "None"]
    /\ UNCHANGED <<risk_manager, backtest, signal_log, league>>

MarkToMarket(timestamp, close_price) ==
    /\ Len(order_engine.equity_points) < MaxPoints
    /\ order_engine' = mark_to_market(order_engine, timestamp, close_price)
    /\ last_call' = [op |-> "mark_to_market"]
    /\ UNCHANGED <<risk_manager, backtest, signal_log, league>>

NextEngine ==
    \/ \E t \in EngineTimestamps, sd \in Sides, q \in Qtys, p \in Prices :
           ExecuteOrder(t, sd, q, p)
    \/ \E t \in EngineTimestamps, p \in MarkPrices : MarkToMarket(t, p)

Spec == InitEngine /\ [][NextEngine]_vars

-----------------------------------------------------------------------------
(* SpecBacktest: run_backtest over every bar sequence, agent and           *)
(* configuration of the input sets, one action per bar of the loop.        *)

MaxBars == 4

FirstTimestamp == 9
BarGaps == {1, HoursPerDay}
BarCloses == {Num(19), Num(20)}

RECURSIVE SumGaps(_, _)
SumGaps(gaps, j) == IF j = 0 THEN 0 ELSE gaps[j] + SumGaps(gaps, j - 1)

\* bar sequences sorted by strictly increasing timestamp (what load_ohlcv_csv
\* hands to the core), of 0..n bars, each bar an hour or a day after the last
BarData(n) ==
    UNION {{[j \in 1..len |-> [timestamp |-> FirstTimestamp + SumGaps(gaps, j - 1),
                               close     |-> closes[j]]] :
                closes \in [1..len -> BarCloses],
                gaps \in [1..(len - 1) -> BarGaps]} : len \in 0..n}

BacktestAgents ==
    {BuyAndHoldAgent,
     [BuyAndHoldAgent EXCEPT !.entered = TRUE],
     SMACrossoverAgent(1, 2),
     SMACrossoverAgent(2, 3),
     RSIMeanReversionAgent(2, DefaultRsiLower, DefaultRsiUpper, DefaultRsiBuySize)}

BacktestCapitals == {Num(1000)}
BacktestSlippageBps == {0, 2500}
BacktestFeeBps == {0, 2500}
BacktestRiskConfigs ==
    {RiskConfig(DefaultMaxPositionPct, DefaultMaxDailyDrawdownPct, DefaultMinTradeNotional),
     RiskConfig(R(1, 2), DefaultMaxDailyDrawdownPct, DefaultMinTradeNotional)}

\* the state of run_backtest when its loop is about to start (line 110)
InitBacktest ==
    /\ \E data \in BarData(MaxBars), agent \in BacktestAgents,
          initial_capital \in BacktestCapitals, slippage_bps \in BacktestSlippageBps,
          fee_bps \in BacktestFeeBps, risk_config \in BacktestRiskConfigs :
          LET st == BacktestStart(data, agent, initial_capital, slippage_bps,
                                  fee_bps, risk_config)
          IN  /\ order_engine = st.order_engine
              /\ risk_manager = st.risk_manager
              /\ signal_log = st.signals
              /\ backtest = [pc    |-> "loop",
                             data  |-> data,
                             agent |-> st.agent,
                             i     |-> 0]
    /\ last_call = [op |-> "init"]
    /\ league = IdleLeague

\* one iteration of the loop (lines 110-135)
Bar ==
    /\ backtest.pc = "loop"
    /\ backtest.i < Len(backtest.data)
    /\ LET st == BarStep([order_engine |-> order_engine,
                          risk_manager |-> risk_manager,
                          agent        |-> backtest.agent,
                          signals      |-> signal_log],
                         backtest.data, backtest.i)
       IN  /\ order_engine' = st.order_engine
           /\ risk_manager' = st.risk_manager
           /\ signal_log' = st.signals
           /\ backtest' = [backtest EXCEPT !.agent = st.agent, !.i = @ + 1]
    /\ last_call' = [op |-> "bar", index |-> backtest.i]
    /\ UNCHANGED league

\* lines 137-146: the loop is over, the BacktestResult is built
Finish ==
    /\ backtest.pc = "loop"
    /\ backtest.i = Len(backtest.data)
    /\ backtest' = [pc     |-> "done",
                    data   |-> backtest.data,
                    agent  |-> backtest.agent,
                    i      |-> backtest.i,
                    result |-> BacktestResult([order_engine |-> order_engine,
                                               agent |-> backtest.agent],
                                              order_engine.initial_capital)]
    /\ last_call' = [op |-> "run_backtest"]
    /\ UNCHANGED <<order_engine, risk_manager, signal_log, league>>

NextBacktest == Bar \/ Finish

SpecBacktest == InitBacktest /\ [][NextBacktest]_vars

-----------------------------------------------------------------------------
(* SpecBuyHold: run_backtest of the buy_hold agent over bars that all have *)
(* the same close, without slippage and fees, under the default risk       *)
(* configuration.                                                          *)

MaxFlatBars == 3

FlatCloses == {Zero, Num(20), Num(100)}
FlatCapitals == {Num(5), Num(1000)}

\* bar sequences of 0..n bars with one close price
FlatData(n) ==
    UNION {{[j \in 1..len |-> [timestamp |-> FirstTimestamp + SumGaps(gaps, j - 1),
                               close     |-> close]] :
                close \in FlatCloses,
                gaps \in [1..(len - 1) -> BarGaps]} : len \in 0..n}

InitBuyHold ==
    /\ \E data \in FlatData(MaxFlatBars), initial_capital \in FlatCapitals,
          agent \in {BuyAndHoldAgent, [BuyAndHoldAgent EXCEPT !.entered = TRUE]} :
          LET st == BacktestStart(data, agent, initial_capital, 0, 0,
                                  RiskConfig(DefaultMaxPositionPct,
                                             DefaultMaxDailyDrawdownPct,
                                             DefaultMinTradeNotional))
          IN  /\ order_engine = st.order_engine
              /\ risk_manager = st.risk_manager
              /\ signal_log = st.signals
              /\ backtest = [pc    |-> "loop",
                             data  |-> data,
                             agent |-> st.agent,
                             i     |-> 0]
    /\ last_call = [op |-> "init"]
    /\ league = IdleLeague

SpecBuyHold == InitBuyHold /\ [][NextBacktest]_vars

-----------------------------------------------------------------------------
(* SpecAgents: one prepared agent whose on_bar is called bar after bar     *)
(* with an arbitrary position_qty, and which may be reset and prepared     *)
(* again for a new run.                                                    *)

MaxAgentBars == 4

AgentCloses == {Num(10), Num(20)}
AgentPositions == {Zero, Num(5)}

\* bars one hour apart with the given closes
BarsOf(closes) ==
    [j \in 1..Len(closes) |-> [timestamp |-> FirstTimestamp + (j - 1),
                               close     |-> closes[j]]]

\* the closes of end-to-end scenario B
ScenarioBCloses ==
    <<Num(10), Num(10), Num(10), Num(20), Num(20), Num(20), Num(10), Num(10), Num(10)>>

DecliningLen == 5
DecliningValues == {Num(10), Num(20), Num(30), Num(40), Num(50), Num(60)}

\* the strictly declining close sequences of DecliningLen bars
DecliningCloses ==
    {c \in [1..DecliningLen -> DecliningValues] :
        \A j \in 1..(DecliningLen - 1) : Gt(c[j], c[j + 1])}

AgentData(n) ==
    {BarsOf(c) : c \in UNION {[1..len -> AgentCloses] : len \in 0..n}}
        \cup {BarsOf(ScenarioBCloses)}
        \cup {BarsOf(c) : c \in DecliningCloses}

Agents ==
    {BuyAndHoldAgent,
     SMACrossoverAgent(1, 2),
     SMACrossoverAgent(2, 3),
     RSIMeanReversionAgent(2, DefaultRsiLower, DefaultRsiUpper, DefaultRsiBuySize),
     RSIMeanReversionAgent(2, DefaultRsiLower, DefaultRsiUpper, One)}

\* the agent after agent.reset() and agent.prepare(data), about to see bar 0
InitAgents ==
    /\ order_engine = OrderEngine(Num(1000), 0, 0)
    /\ risk_manager = RiskManager(RiskConfig(DefaultMaxPositionPct,
                                             DefaultMaxDailyDrawdownPct,
                                             DefaultMinTradeNotional))
    /\ league = IdleLeague
    /\ last_call = [op |-> "init"]
    /\ signal_log = << >>
    /\ \E data \in AgentData(MaxAgentBars), agent \in Agents :
           backtest = [pc        |-> "agent",
                       data      |-> data,
                       agent     |-> prepare(reset(agent), data),
                       i         |-> 0,
                       positions |-> << >>]

\* signal = agent.on_bar(i, row, position_qty) for the next bar of the run
OnBar(position_qty) ==
    /\ backtest.pc = "agent"
    /\ backtest.i < Len(backtest.data)
    /\ \E decided \in {on_bar(backtest.agent, backtest.i, position_qty)} :
           /\ backtest' = [backtest EXCEPT
                              !.agent = decided.agent,
                              !.i = @ + 1,
                              !.positions = Append(@, position_qty)]
           /\ signal_log' = Append(signal_log, decided.signal)
    /\ last_call' = [op |-> "on_bar", index |-> backtest.i,
                     position_qty |-> position_qty]
    /\ UNCHANGED <<order_engine, risk_manager, league>>

\* agent.reset(); agent.prepare(data): a new run over the same bars begins
AgentReset ==
    /\ backtest.pc = "agent"
    /\ backtest.i > 0
    /\ backtest' = [backtest EXCEPT
                       !.agent = prepare(reset(@), backtest.data),
                       !.i = 0,
                       !.positions = << >>]
    /\ signal_log' = << >>
    /\ last_call' = [op |-> "reset"]
    /\ UNCHANGED <<order_engine, risk_manager, league>>

NextAgents == (\E position_qty \in AgentPositions : OnBar(position_qty)) \/ AgentReset

SpecAgents == InitAgents /\ [][NextAgents]_vars

-----------------------------------------------------------------------------
(* engine/market_replay.py: run_league                                     *)

\* the keys of a dict in insertion order, for the dict get_baseline_agents
\* returns
AvailableKeys == StrategyNames

SeqToSet(q) == {q[j] : j \in 1..Len(q)}

\* selected = list(strategies) if strategies else list(available.keys())
Selected(strategies) == IF Len(strategies) > 0 THEN strategies ELSE AvailableKeys

\* mutant of Unknown: only the first selected name is looked up
Unknown_first_only(selected) ==
    IF Len(selected) > 0 /\ selected[1] \notin SeqToSet(AvailableKeys)
    THEN <<selected[1]>> ELSE << >>

\* unknown = [name for name in selected if name not in available]
Unknown(selected) == SelectSeq(selected, LAMBDA name : name \notin SeqToSet(AvailableKeys))

\* final_equity of a leaderboard row (line 179)
FinalEquity(result, initial_capital) ==
    IF Len(result.equity_curve) > 0
    THEN result.equity_curve[Len(result.equity_curve)].equity
    ELSE initial_capital

\* the leaderboard row appended for a strategy (lines 180-189)
LeaderboardRow(strategy, result, initial_capital) ==
    [strategy     |-> strategy,
     final_equity |-> FinalEquity(result, initial_capital),
     total_return |-> result.metrics.total_return,
     max_drawdown |-> result.metrics.max_drawdown,
     win_rate     |-> result.metrics.win_rate]

Perms(n) == {f \in [1..n -> 1..n] : \A a, b \in 1..n : f[a] = f[b] => a = b}

\* DataFrame.sort_values("total_return", ascending=False) with the default
\* kind="quicksort", which is not a stable sort: every ordering of the rows
\* by descending total_return is a possible result
SortValuesDescending(rows) ==
    {[j \in 1..Len(rows) |-> rows[f[j]]] : f \in
        {g \in Perms(Len(rows)) :
            \A a, b \in 1..Len(rows) :
                a < b => Ge(rows[g[a]].total_return, rows[g[b]].total_return)}}

-----------------------------------------------------------------------------
(* SpecLeague: run_league over every selection, bar sequence and           *)
(* configuration of the input sets.                                        *)

MaxSelected == 2
MaxLeagueBars == 2

LeagueNames == SeqToSet(StrategyNames) \cup {"momentum"}

Selections == UNION {[1..len -> LeagueNames] : len \in 0..MaxSelected}

\* the non-empty bar sequences handed to run_league
LeagueData == {d \in BarData(MaxLeagueBars) : Len(d) > 0}

LeagueSlippageBps == {0}
LeagueFeeBps == {0}

InitLeague ==
    /\ order_engine = OrderEngine(Num(1000), 0, 0)
    /\ risk_manager = RiskManager(RiskConfig(DefaultMaxPositionPct,
                                             DefaultMaxDailyDrawdownPct,
                                             DefaultMinTradeNotional))
    /\ last_call = [op |-> "init"]
    /\ backtest = IdleBacktest
    /\ signal_log = << >>
    /\ league \in [pc              : {"start"},
                   strategies      : Selections,
                   data            : LeagueData,
                   initial_capital : BacktestCapitals,
                   slippage_bps    : LeagueSlippageBps,
                   fee_bps         : LeagueFeeBps,
                   risk_config     : {risk_manager.config}]

\* lines 157-166: the strategies are resolved and checked
LeagueSelect ==
    /\ league.pc = "start"
    /\ LET selected == Selected(league.strategies)
           unknown  == Unknown(selected)
       IN  league' =
               IF Len(unknown) > 0
               THEN [pc        |-> "raised",
                     error     |-> "ValueError",
                     unknown   |-> unknown,
                     available_names |-> AvailableKeys,
                     strategies |-> league.strategies]
               ELSE [pc              |-> "loop",
                     strategies      |-> league.strategies,
                     data            |-> league.data,
                     initial_capital |-> league.initial_capital,
                     slippage_bps    |-> league.slippage_bps,
                     fee_bps         |-> league.fee_bps,
                     risk_config     |-> league.risk_config,
                     selected        |-> selected,
                     available       |-> get_baseline_agents,
                     k               |-> 0,
                     backtests       |-> << >>,
                     leaderboard_rows |-> << >>]
    /\ last_call' = [op |-> "run_league.select"]
    /\ UNCHANGED <<order_engine, risk_manager, backtest, signal_log>>

\* one iteration of the loop over selected (lines 168-189); backtests is
\* kept as the sequence of (strategy, result) assignments made to the dict
LeagueRun ==
    /\ league.pc = "loop"
    /\ league.k < Len(league.selected)
    /\ \E strategy \in {league.selected[league.k + 1]} :
       \E run \in {run_backtest(league.data, league.available[strategy],
                                league.initial_capital, league.slippage_bps,
                                league.fee_bps, league.risk_config)} :
           league' = [league EXCEPT
               !.k = @ + 1,
               !.available[strategy] = run.agent,
               !.backtests = Append(@, [strategy |-> strategy, result |-> run.result]),
               !.leaderboard_rows = Append(@,
                   LeaderboardRow(strategy, run.result, league.initial_capital))]
    /\ last_call' = [op |-> "run_league.run_backtest"]
    /\ UNCHANGED <<order_engine, risk_manager, backtest, signal_log>>

\* lines 191-192: the rows are sorted and the LeagueResult is returned
LeagueSort ==
    /\ league.pc = "loop"
    /\ league.k = Len(league.selected)
    /\ \E leaderboard \in SortValuesDescending(league.leaderboard_rows) :
           league' = [pc               |-> "done",
                      strategies       |-> league.strategies,
                      selected         |-> league.selected,
                      leaderboard_rows |-> league.leaderboard_rows,
                      leaderboard      |-> leaderboard,
                      backtests        |-> league.backtests]
    /\ last_call' = [op |-> "run_league"]
    /\ UNCHANGED <<order_engine, risk_manager, backtest, signal_log>>

NextLeague == LeagueSelect \/ LeagueRun \/ LeagueSort

SpecLeague == InitLeague /\ [][NextLeague]_vars

-----------------------------------------------------------------------------
(* Properties of the Order Engine (checked under Spec)                     *)

LastTrade == order_engine.trades[Len(order_engine.trades)]

\* C1: every Equity Point appended by mark_to_market satisfies
\* equity = cash + position_qty * close, with cash and position_qty the
\* values recorded in that same point.
C1_EquityPointIdentity ==
    \A k \in 1..Len(order_engine.equity_points) :
        LET pt == order_engine.equity_points[k]
        IN  pt.equity = Add(pt.cash, Mul(pt.position_qty, pt.close))

\* a point marked at a positive close while a position is held, after both
\* a buy and a sell have executed
C1_Witness ==
    /\ Len(order_engine.trades) >= 2
    /\ \E k \in 1..Len(order_engine.equity_points) :
           LET pt == order_engine.equity_points[k]
           IN  /\ Gt(pt.position_qty, Zero)
               /\ Gt(pt.close, Zero)
               /\ pt.cash # pt.equity

\* C2: after any sequence of execute_order calls cash is never negative.
C2_CashNeverNegative == Ge(order_engine.cash, Zero)

\* C3: position_qty is never negative; a sell executes at most the held
\* quantity (the position left by the previous Trade) whatever quantity is
\* requested.
C3_PositionNeverNegative ==
    /\ Ge(order_engine.position_qty, Zero)
    /\ \A k \in 1..Len(order_engine.trades) :
           LET tr == order_engine.trades[k]
               held == IF k = 1 THEN Zero
                       ELSE order_engine.trades[k - 1].position_after
           IN  /\ Ge(tr.position_after, Zero)
               /\ tr.side = "sell" => Le(tr.qty, held)

\* a sell that asked for more than was held has just executed
C3_Witness ==
    /\ last_call.op = "execute_order"
    /\ Lower(last_call.side) = "sell"
    /\ last_call.returned = "Trade"
    /\ Lt(LastTrade.qty, last_call.qty)
    /\ order_engine.position_qty = Zero

\* C4: position_cost_basis is 0 if and only if position_qty is 0.
C4_BasisZeroIffFlat ==
    (order_engine.position_cost_basis = Zero) <=> (order_engine.position_qty = Zero)

\* a buy and then a partial sell that left a position with a cost basis
C4_Witness ==
    /\ Len(order_engine.trades) = 2
    /\ order_engine.trades[1].side = "buy"
    /\ order_engine.trades[2].side = "sell"
    /\ Gt(order_engine.position_qty, Zero)
    /\ Gt(order_engine.position_cost_basis, Zero)

\* C5: every Trade in the trade list has qty > 0.
C5_TradeQtyPositive ==
    \A k \in 1..Len(order_engine.trades) : Gt(order_engine.trades[k].qty, Zero)

\* after an all-in buy has filled, a further buy with a positive requested
\* quantity found nothing affordable and recorded no Trade
C5_Witness ==
    /\ Len(order_engine.trades) = 1
    /\ last_call.op = "execute_order"
    /\ Lower(last_call.side) = "buy"
    /\ Gt(last_call.qty, Zero)
    /\ last_call.raised = ""
    /\ last_call.returned = "None"
    /\ order_engine.cash = Zero

-----------------------------------------------------------------------------
(* SpecRisk: one RiskManager driven by arbitrary register_equity calls.    *)

RiskTimestamps == {9, 15, 33, 39}
Equities == {Num(900), Num(940), Num(950), Num(1000), Num(1100)}

ValidRiskConfigs == {c \in RiskConfigs : ValidRiskConfig(c)}

InitRisk ==
    /\ Idle
    /\ order_engine = OrderEngine(Num(1000), 0, 0)
    /\ risk_manager \in {RiskManager(c) : c \in ValidRiskConfigs}
    /\ last_call = [op |-> "init"]

RegisterEquity(timestamp, equity) ==
    /\ risk_manager' = register_equity(risk_manager, timestamp, equity)
    /\ last_call' = [op |-> "register_equity", timestamp |-> timestamp,
                     equity |-> equity]
    /\ UNCHANGED <<order_engine, backtest, signal_log, league>>

NextRisk == \E t \in RiskTimestamps, q \in Equities : RegisterEquity(t, q)

SpecRisk == InitRisk /\ [][NextRisk]_vars

-----------------------------------------------------------------------------
(* SpecSize: size_buy_qty applied to every combination of its arguments.   *)

Fractions == {R(-1, 2), Zero, R(1, 2), One, Num(2)}
SizePrices == {Zero, Num(10), Num(400)}
SizeCash == {Zero, Num(5), Num(1000)}
SizeEquity == {Zero, Num(1000)}
SizePositions == {Zero, Num(1), Num(100)}

InitSize ==
    /\ Idle
    /\ order_engine = OrderEngine(Num(1000), 0, 0)
    /\ risk_manager \in {RiskManager(c) : c \in ValidRiskConfigs}
    /\ last_call \in [op : {"args"},
                      requested_fraction : Fractions,
                      price : SizePrices,
                      cash : SizeCash,
                      equity : SizeEquity,
                      current_position_qty : SizePositions]

SizeBuyQty ==
    /\ last_call.op = "args"
    /\ last_call' = [op |-> "size_buy_qty",
                     requested_fraction |-> last_call.requested_fraction,
                     price |-> last_call.price,
                     cash |-> last_call.cash,
                     equity |-> last_call.equity,
                     current_position_qty |-> last_call.current_position_qty,
                     result |-> size_buy_qty(risk_manager,
                                    last_call.requested_fraction,
                                    last_call.price,
                                    last_call.cash,
                                    last_call.equity,
                                    last_call.current_position_qty)]
    /\ UNCHANGED <<order_engine, risk_manager, backtest, signal_log, league>>

NextSize == SizeBuyQty

SpecSize == InitSize /\ [][NextSize]_vars

-----------------------------------------------------------------------------
(* Properties of the Risk Manager                                          *)

\* C6 (SpecRisk): once guard_triggered is true, can_add_risk() is false
\* after every register_equity call on the tracked calendar day, whatever
\* equity is registered, and is true again after the first register_equity
\* call whose calendar day differs from the tracked day.
C6_GuardLatchedForDay ==
    [][(risk_manager.guard_triggered /\ last_call'.op = "register_equity") =>
          IF Normalize(last_call'.timestamp) = risk_manager.current_day
          THEN ~can_add_risk(risk_manager')
          ELSE can_add_risk(risk_manager')]_vars

\* the guard is still triggered after a same-day call that registered an
\* equity at or above the day-start equity
C6_Witness ==
    /\ last_call.op = "register_equity"
    /\ Normalize(last_call.timestamp) = risk_manager.current_day
    /\ Ge(last_call.equity, risk_manager.day_start_equity)
    /\ risk_manager.guard_triggered

\* the target notional as the claim words it:
\* min(equity * clamped fraction, remaining capacity under the cap, cash)
C9_Target ==
    LET cfg == risk_manager.config
        clamped == IF Lt(last_call.requested_fraction, Zero) THEN Zero
                   ELSE IF Gt(last_call.requested_fraction, One) THEN One
                   ELSE last_call.requested_fraction
        capacity == Sub(Mul(last_call.equity, cfg.max_position_pct),
                        Mul(last_call.current_position_qty, last_call.price))
        remaining == IF Lt(capacity, Zero) THEN Zero ELSE capacity
        requested == Mul(last_call.equity, clamped)
        m == IF Le(requested, remaining) THEN requested ELSE remaining
    IN  IF Le(m, last_call.cash) THEN m ELSE last_call.cash

\* C9 as stated (SpecSize): size_buy_qty returns 0 when the target notional
\* is below min_trade_notional and otherwise returns target notional / price
\* (a quotient that exists only for price # 0).
C9_Original ==
    last_call.op = "size_buy_qty" =>
        IF Lt(C9_Target, risk_manager.config.min_trade_notional)
        THEN last_call.result = Zero
        ELSE /\ last_call.price # Zero
             /\ last_call.result = Div(C9_Target, last_call.price)

\* C9 as amended (SpecSize): size_buy_qty returns 0 when the target notional
\* is below min_trade_notional or price <= 0, and otherwise returns
\* target notional / price.
C9_SizeBuyQty ==
    last_call.op = "size_buy_qty" =>
        IF Lt(C9_Target, risk_manager.config.min_trade_notional)
           \/ Le(last_call.price, Zero)
        THEN last_call.result = Zero
        ELSE last_call.result = Div(C9_Target, last_call.price)

\* a positive quantity sized by the remaining capacity under the position
\* cap, which is below both the requested notional and the cash
C9_Witness ==
    /\ last_call.op = "size_buy_qty"
    /\ Gt(last_call.result, Zero)
    /\ Gt(last_call.current_position_qty, Zero)
    /\ Lt(Mul(last_call.result, last_call.price), last_call.cash)
    /\ Lt(Mul(last_call.result, last_call.price),
          Mul(last_call.equity, last_call.requested_fraction))

-----------------------------------------------------------------------------
(* Properties of run_backtest (checked under SpecBacktest)                 *)

\* bars processed so far are numbered 1..BarsDone
BarsDone == Len(signal_log)

\* cash and position held when bar j starts
CashBefore(j) ==
    IF j = 1 THEN order_engine.initial_capital ELSE order_engine.equity_points[j - 1].cash

PositionBefore(j) ==
    IF j = 1 THEN Zero ELSE order_engine.equity_points[j - 1].position_qty

\* the equity registered with the Risk Manager for bar j
EquityBefore(j) == Add(CashBefore(j), Mul(PositionBefore(j), backtest.data[j].close))

BarDay(j) == backtest.data[j].timestamp \div HoursPerDay

FirstBarOfDay(j) == CHOOSE h \in 1..j :
    /\ BarDay(h) = BarDay(j)
    /\ \A g \in 1..j : BarDay(g) = BarDay(j) => h <= g

\* bar h registered an equity at or below day-start equity * (1 - limit)
Breach(h) ==
    /\ h # FirstBarOfDay(h)
    /\ Le(EquityBefore(h),
          Mul(EquityBefore(FirstBarOfDay(h)),
              Sub(One, risk_manager.config.max_daily_drawdown_pct)))

\* bar j is a breaching bar or a later bar of the same calendar day
Guarded(j) == \E h \in 1..j : BarDay(h) = BarDay(j) /\ Breach(h)

TradeOn(j, side) ==
    \E k \in 1..Len(order_engine.trades) :
        /\ order_engine.trades[k].timestamp = backtest.data[j].timestamp
        /\ order_engine.trades[k].side = side

C8_SellsNeverBlocked ==
    \A j \in 1..BarsDone :
        (/\ signal_log[j].action = "sell"
         /\ Gt(signal_log[j].size, Zero)
         /\ Gt(PositionBefore(j), Zero)) => TradeOn(j, "sell")

\* a sell signal on a guarded bar, with its sell Trade recorded
C8_Witness ==
    \E j \in 1..BarsDone :
        /\ Guarded(j)
        /\ signal_log[j].action = "sell"
        /\ TradeOn(j, "sell")

-----------------------------------------------------------------------------
(* Properties of run_league (checked under SpecLeague)                     *)

\* C10: the leaderboard lists one row per selected strategy in descending
\* total_return order, and rows with equal total_return keep the order in
\* which their strategies were selected: the leaderboard is the rows taken
\* in an order f that is descending and, among equal returns, increasing in
\* selection position.
C10_LeaderboardStableDescending ==
    league.pc = "done" =>
        /\ Len(league.leaderboard) = Len(league.selected)
        /\ \A j \in 1..Len(league.selected) :
               league.leaderboard_rows[j].strategy = league.selected[j]
        /\ \E f \in Perms(Len(league.selected)) :
               /\ \A j \in 1..Len(league.selected) :
                      league.leaderboard[j] = league.leaderboard_rows[f[j]]
               /\ \A a, b \in 1..Len(league.selected) :
                      a < b =>
                          LET ra == league.leaderboard_rows[f[a]].total_return
                              rb == league.leaderboard_rows[f[b]].total_return
                          IN  /\ Ge(ra, rb)
                              /\ ra = rb => f[a] < f[b]

\* C11 (SpecLeague): when a selected name is not a known strategy, run_league
\* raises at once, naming the unknown names (in selection order) and the
\* available names; no backtest runs before the error, also not for known
\* names selected ahead of the unknown one, and no leaderboard is produced.
C11_UnknownStrategyFailsFast ==
    /\ [](league.pc \in {"loop", "done"} =>
             \A j \in 1..Len(league.selected) :
                 league.selected[j] \in SeqToSet(AvailableKeys))
    /\ [](league.pc = "raised" =>
             /\ league.error = "ValueError"
             /\ league.unknown # << >>
             /\ SeqToSet(league.unknown) =
                    SeqToSet(league.strategies) \ SeqToSet(AvailableKeys)
             /\ league.available_names = StrategyNames
             /\ DOMAIN league \cap {"backtests", "leaderboard_rows", "leaderboard"} = {})
    /\ [][(league.pc = "start" /\
            \E j \in 1..Len(league.strategies) :
                league.strategies[j] \notin SeqToSet(AvailableKeys))
               => league'.pc = "raised"]_vars

\* the error was raised for a selection whose first name is known and whose
\* second name is not
C11_Witness ==
    /\ league.pc = "raised"
    /\ Len(league.strategies) = 2
    /\ league.strategies[1] \in SeqToSet(AvailableKeys)
    /\ league.unknown = <<league.strategies[2]>>

\* the Backtest Result of strategy over the league's bars and configuration
\* when it is run alone on a freshly constructed agent
RunAlone(strategy) ==
    run_backtest(league.data, get_baseline_agents[strategy],
                 league.initial_capital, league.slippage_bps,
                 league.fee_bps, league.risk_config).result

\* C12 (SpecLeague): every Backtest Result run_league stores equals the
\* result of running that strategy alone, whatever was selected before it
\* and also when the same strategy is selected twice.
C12_BacktestsIndependent ==
    league.pc = "loop" =>
        \A j \in 1..Len(league.backtests) :
            league.backtests[j].result = RunAlone(league.backtests[j].strategy)

\* buy_hold was selected twice and its second run traded again
C12_Witness ==
    /\ league.pc = "loop"
    /\ Len(league.backtests) = 2
    /\ league.backtests[1].strategy = "buy_hold"
    /\ league.backtests[2].strategy = "buy_hold"
    /\ Len(league.backtests[2].result.trades) > 0

-----------------------------------------------------------------------------
(* Properties of the end-to-end buy_hold scenario (checked under           *)
(* SpecBuyHold)                                                            *)

\* run_backtest has returned: exactly one Trade was recorded, a buy on the
\* first bar of qty = initial_capital / close at the close, and the equity
\* of every bar equals initial_capital
C13_OneBuyFlatEquity ==
    LET close == backtest.data[1].close
    IN  /\ Len(order_engine.trades) = 1
        /\ order_engine.trades[1].side = "buy"
        /\ order_engine.trades[1].timestamp = backtest.data[1].timestamp
        /\ order_engine.trades[1].fill_price = close
        /\ Mul(order_engine.trades[1].qty, close) = order_engine.initial_capital
        /\ Len(backtest.result.equity_curve) = Len(backtest.data)
        /\ \A j \in 1..Len(backtest.result.equity_curve) :
               backtest.result.equity_curve[j].equity = order_engine.initial_capital

\* C13 as stated (SpecBuyHold): with fee_bps = 0, slippage_bps = 0, the
\* default risk configuration and at least one bar, all bars at the same
\* close, run_backtest of buy_hold records exactly one Trade, a buy on the
\* first bar of qty = initial_capital / close, and the equity at every bar
\* equals initial_capital.
C13_Original ==
    (backtest.pc = "done" /\ Len(backtest.data) > 0) => C13_OneBuyFlatEquity

\* C13 as amended (SpecBuyHold): the same, for a close > 0 and an
\* initial_capital of at least min_trade_notional.
C13_FlatBuyHold ==
    (/\ backtest.pc = "done"
     /\ Len(backtest.data) > 0
     /\ Gt(backtest.data[1].close, Zero)
     /\ Ge(order_engine.initial_capital, risk_manager.config.min_trade_notional))
        => C13_OneBuyFlatEquity

\* the scenario of the specification: 3 bars at close 100, initial_capital
\* 1000, one buy of qty 10 at price 100 and a final equity of 1000
C13_Witness ==
    /\ backtest.pc = "done"
    /\ Len(backtest.data) = 3
    /\ backtest.data[1].close = Num(100)
    /\ order_engine.initial_capital = Num(1000)
    /\ Len(order_engine.trades) = 1
    /\ order_engine.trades[1].qty = Num(10)
    /\ order_engine.trades[1].fill_price = Num(100)
    /\ backtest.result.equity_curve[3].equity = Num(1000)

-----------------------------------------------------------------------------
(* Properties of the agents (checked under SpecAgents)                     *)

\* the mean of the window closes ending at bar j (bars numbered from 1)
Average(j, window) ==
    Div(SumRange(Closes(backtest.data), j - window + 1, j), Num(window))

\* what the claim says the SMA-crossover agent returns for bar j
C14_Expected(j) ==
    LET agent == backtest.agent
        held  == Gt(backtest.positions[j], Zero)
    IN  IF j - 1 < agent.long_window - 1 THEN HOLD_SIGNAL
        ELSE IF Gt(Average(j, agent.short_window), Average(j, agent.long_window))
                /\ ~held
        THEN Signal("buy", One)
        ELSE IF Lt(Average(j, agent.short_window), Average(j, agent.long_window))
                /\ held
        THEN Signal("sell", One)
        ELSE HOLD_SIGNAL

\* C14 (SpecAgents): the SMA-crossover agent returns hold at every bar index
\* below long_window - 1, and at every later bar buy size 1.0 iff short
\* average > long average and no position is held, sell size 1.0 iff short
\* average < long average and a position is held, else hold; with short=2,
\* long=3 over closes [10,10,10,20,20,20,10,10,10] the first two bars are
\* hold, no buy comes before the fourth bar, and the fourth bar is the first
\* where the 2-bar average exceeds the 3-bar average and gives buy when no
\* position is held.
C14_SmaCrossoverSignals ==
    backtest.agent.name = "sma_crossover" =>
        /\ \A j \in 1..Len(signal_log) : signal_log[j] = C14_Expected(j)
        /\ (Closes(backtest.data) = ScenarioBCloses
             /\ backtest.agent.short_window = 2
             /\ backtest.agent.long_window = 3) =>
               /\ \A j \in 1..Len(signal_log) :
                      /\ j <= 2 => signal_log[j] = HOLD_SIGNAL
                      /\ j < 4 => signal_log[j].action # "buy"
                      /\ (j = 4 /\ backtest.positions[j] = Zero) =>
                             signal_log[j] = Signal("buy", One)
               /\ \A j \in 3..4 : Gt(Average(j, 2), Average(j, 3)) <=> j = 4

\* scenario B has run to its last bar with the first buy on the fourth bar
\* and a sell after the averages crossed back
C14_Witness ==
    /\ backtest.agent.name = "sma_crossover"
    /\ Closes(backtest.data) = ScenarioBCloses
    /\ backtest.agent.short_window = 2
    /\ backtest.agent.long_window = 3
    /\ Len(signal_log) = Len(ScenarioBCloses)
    /\ signal_log[4].action = "buy"
    /\ \E j \in 5..Len(signal_log) : signal_log[j].action = "sell"

\* C15 (SpecAgents): for the RSI agent with period=2 over 5 bars of strictly
\* declining closes, on_bar returns hold on the warm-up bars (the first two,
\* where the RSI is the neutral 50), and from the third bar on, where the
\* smoothed RSI is defined and below the lower threshold 30, it returns buy
\* with the configured buy size whenever no position is held and hold
\* otherwise, so the first buy comes on the first such bar without a
\* position.
C15_RsiDecliningBuys ==
    (/\ backtest.agent.name = "rsi_mean_reversion"
     /\ backtest.agent.period = 2
     /\ Closes(backtest.data) \in DecliningCloses) =>
        /\ \A j \in 1..2 : backtest.agent.rsi[j] = Num(50)
        /\ \A j \in 3..DecliningLen : Lt(backtest.agent.rsi[j], Num(30))
        /\ \A j \in 1..Len(signal_log) :
               signal_log[j] =
                   IF j >= 3 /\ Le(backtest.positions[j], Zero)
                   THEN Signal("buy", backtest.agent.buy_size)
                   ELSE HOLD_SIGNAL

\* over 5 declining bars the first buy came on the fourth bar, because a
\* position was held on the third
C15_Witness ==
    /\ backtest.agent.name = "rsi_mean_reversion"
    /\ Closes(backtest.data) \in DecliningCloses
    /\ Len(signal_log) = DecliningLen
    /\ Gt(backtest.positions[3], Zero)
    /\ signal_log[3] = HOLD_SIGNAL
    /\ signal_log[4] = Signal("buy", backtest.agent.buy_size)

\* the first bar of the run on which on_bar observed position_qty <= 0
\* (0 when there is none yet)
FirstFlatBar ==
    IF \E j \in 1..Len(signal_log) : Le(backtest.positions[j], Zero)
    THEN CHOOSE j \in 1..Len(signal_log) :
             /\ Le(backtest.positions[j], Zero)
             /\ \A h \in 1..(j - 1) : Gt(backtest.positions[h], Zero)
    ELSE 0

\* C20 (SpecAgents): within one run (since the last reset()) the buy-and-hold
\* agent returns buy, size 1.0, on exactly the first bar on which it observes
\* position_qty <= 0 and hold on every other bar, whatever positions it
\* observes afterwards.
C20_BuyHoldBuysOnce ==
    backtest.agent.name = "buy_hold" =>
        \A j \in 1..Len(signal_log) :
            signal_log[j] = IF j = FirstFlatBar THEN Signal("buy", One) ELSE HOLD_SIGNAL

\* after its buy the agent observed position_qty = 0 again (the buy was not
\* executed, or the position was closed) and returned hold
C20_Witness ==
    /\ backtest.agent.name = "buy_hold"
    /\ Len(signal_log) >= 3
    /\ signal_log[2] = Signal("buy", One)
    /\ backtest.positions[3] = Zero
    /\ signal_log[3] = HOLD_SIGNAL

-----------------------------------------------------------------------------
(* Properties of execute_order calls (checked under Spec)                  *)

\* the step is an execute_order call
Called == last_call'.op = "execute_order"

\* the call changed none of cash, position_qty, position_cost_basis and the
\* trade list
PortfolioUnchanged ==
    /\ order_engine'.cash = order_engine.cash
    /\ order_engine'.position_qty = order_engine.position_qty
    /\ order_engine'.position_cost_basis = order_engine.position_cost_basis
    /\ order_engine'.trades = order_engine.trades

\* the side of the call is neither buy nor sell (in any letter case)
UnsupportedSide == Lower(last_call'.side) \notin {"buy", "sell"}

\* C16 as stated (Spec): execute_order with a side that is neither buy nor
\* sell raises the invalid-input error for every requested qty, positive,
\* zero or negative, and leaves cash, position_qty, position_cost_basis and
\* the trade list unchanged.
C16_Original ==
    [][(Called /\ UnsupportedSide) =>
          /\ last_call'.raised = "ValueError"
          /\ PortfolioUnchanged]_vars

\* C16 as amended (Spec): execute_order with a side that is neither buy nor
\* sell raises the invalid-input error for every requested qty > 0, returns
\* nothing without an error for every qty <= 0, and in both cases leaves
\* cash, position_qty, position_cost_basis and the trade list unchanged.
C16_UnsupportedSide ==
    [][(Called /\ UnsupportedSide) =>
          /\ last_call'.raised =
                 (IF Gt(last_call'.qty, Zero) THEN "ValueError" ELSE "")
          /\ last_call'.returned = "None"
          /\ PortfolioUnchanged]_vars

\* a call with an unsupported side and a positive qty raised while a
\* position was held
C16_Witness ==
    /\ last_call.op = "execute_order"
    /\ Lower(last_call.side) \notin {"buy", "sell"}
    /\ Gt(last_call.qty, Zero)
    /\ last_call.raised = "ValueError"
    /\ Gt(order_engine.position_qty, Zero)

\* the call is one of the claim's no-fill cases: requested qty <= 0, a buy
\* whose affordable quantity cash / (fill_price * (1 + fee_rate)) is <= 0,
\* or a sell with no position
NoFillCase ==
    LET qty   == last_call'.qty
        side  == Lower(last_call'.side)
        denom == Mul(Mul(last_call'.price, Add(One, slippage_rate(order_engine))),
                     Add(One, fee_rate(order_engine)))
    IN  \/ Le(qty, Zero)
        \/ /\ side = "buy"
           /\ denom # Zero
           /\ Le(Div(order_engine.cash, denom), Zero)
        \/ /\ side = "sell"
           /\ Le(order_engine.position_qty, Zero)

\* C17 (Spec): an execute_order call that produces no fill (requested qty
\* <= 0, a buy whose affordable quantity is <= 0, or a sell with no position)
\* returns nothing, appends no Trade, and leaves cash, position_qty and
\* position_cost_basis unchanged.
C17_NoFillNoChange ==
    [][(Called /\ NoFillCase) =>
          /\ last_call'.raised = ""
          /\ last_call'.returned = "None"
          /\ PortfolioUnchanged]_vars

\* a buy with a positive requested qty found nothing affordable, after an
\* earlier buy had spent all the cash
C17_Witness ==
    /\ last_call.op = "execute_order"
    /\ Lower(last_call.side) = "buy"
    /\ Gt(last_call.qty, Zero)
    /\ Gt(last_call.price, Zero)
    /\ last_call.returned = "None"
    /\ last_call.raised = ""
    /\ Le(order_engine.cash, Zero)
    /\ Len(order_engine.trades) = 1

\* C19 (Spec): the Trade recorded by an execute_order call at an order price
\* > 0 has fill_price > 0 and fee >= 0, for buys and sells, under every
\* slippage_bps >= 0 and fee_bps >= 0.
C19_FillPricePositive ==
    [][(/\ Called
        /\ last_call'.returned = "Trade"
        /\ Gt(last_call'.price, Zero)
        /\ order_engine.slippage_bps >= 0
        /\ order_engine.fee_bps >= 0) =>
          LET trade == order_engine'.trades[Len(order_engine'.trades)]
          IN  /\ Gt(trade.fill_price, Zero)
              /\ Ge(trade.fee, Zero)]_vars

-----------------------------------------------------------------------------
(* Properties of the equity curve of run_backtest (checked under           *)
(* SpecBacktest)                                                           *)

\* the Trade recorded on bar j (each bar executes at most one order)
TradeOfBar(j) ==
    CHOOSE k \in 1..Len(order_engine.trades) :
        order_engine.trades[k].timestamp = backtest.data[j].timestamp

\* C18 (SpecBacktest): after each bar of run_backtest the equity curve has
\* one Equity Point per bar processed, N for the N bars when it returns;
\* the i-th point carries the timestamp and close of the i-th bar, whether
\* or not an order executed on that bar, and its cash and position_qty are
\* those after the bar's order: the cash_after and position_after of the
\* bar's Trade, or the values before the bar when nothing filled.
C18_OnePointPerBar ==
    backtest.pc \in {"loop", "done"} =>
        /\ Len(order_engine.equity_points) = backtest.i
        /\ backtest.pc = "done" =>
               /\ backtest.result.equity_curve = order_engine.equity_points
               /\ Len(backtest.result.equity_curve) = Len(backtest.data)
        /\ \A j \in 1..Len(order_engine.equity_points) :
               LET pt == order_engine.equity_points[j]
               IN  /\ pt.timestamp = backtest.data[j].timestamp
                   /\ pt.close = backtest.data[j].close
                   /\ IF TradeOn(j, "buy") \/ TradeOn(j, "sell")
                      THEN /\ pt.cash = order_engine.trades[TradeOfBar(j)].cash_after
                           /\ pt.position_qty =
                                  order_engine.trades[TradeOfBar(j)].position_after
                      ELSE /\ pt.cash = CashBefore(j)
                           /\ pt.position_qty = PositionBefore(j)
        /\ backtest.i > 0 =>
               LET last == order_engine.equity_points[backtest.i]
               IN  /\ last.cash = order_engine.cash
                   /\ last.position_qty = order_engine.position_qty

\* run_backtest returned a curve that has points for a bar with a fill, a
\* bar with a hold signal and a bar whose buy signal recorded no Trade
C18_Witness ==
    /\ backtest.pc = "done"
    /\ Len(backtest.result.equity_curve) = Len(backtest.data)
    /\ \E j \in 1..BarsDone : TradeOn(j, "buy")
    /\ \E j \in 1..BarsDone : signal_log[j].action = "hold"
    /\ \E j \in 1..BarsDone : signal_log[j].action = "buy" /\ ~TradeOn(j, "buy")

-----------------------------------------------------------------------------
(* The accounting identity of the Order Engine (checked under Spec)        *)

\* the sum of realized_pnl over the first k recorded Trades
RECURSIVE RealizedPnlSum(_)
RealizedPnlSum(k) ==
    IF k = 0 THEN Zero
    ELSE Add(RealizedPnlSum(k - 1), order_engine.trades[k].realized_pnl)

\* C21 (Spec): in every reachable Order Engine state cash +
\* position_cost_basis - (sum of realized_pnl over all recorded Trades)
\* equals initial_capital, and every buy Trade has realized_pnl 0.
C21_AccountingIdentity ==
    /\ Sub(Add(order_engine.cash, order_engine.position_cost_basis),
           RealizedPnlSum(Len(order_engine.trades))) = order_engine.initial_capital
    /\ \A k \in 1..Len(order_engine.trades) :
           order_engine.trades[k].side = "buy" =>
               order_engine.trades[k].realized_pnl = Zero

-----------------------------------------------------------------------------
(* Properties of the Trades of run_backtest (checked under SpecBacktest)   *)

\* the position held before the k-th Trade
HeldBeforeTrade(k) ==
    IF k = 1 THEN Zero ELSE order_engine.trades[k - 1].position_after

\* C22 (SpecBacktest): in a run_backtest of a baseline strategy at most one
\* Trade is recorded per bar (each Trade carries the timestamp of a bar
\* already processed, later than that of the Trade before it), the first
\* Trade is a buy, the sides alternate buy, sell, buy, ..., every sell
\* leaves position_after = 0 and every buy finds no position held.
C22_TradesAlternate ==
    \A k \in 1..Len(order_engine.trades) :
        LET trade == order_engine.trades[k]
        IN  /\ \E j \in 1..BarsDone : backtest.data[j].timestamp = trade.timestamp
            /\ k > 1 => order_engine.trades[k - 1].timestamp < trade.timestamp
            /\ trade.side = (IF k % 2 = 1 THEN "buy" ELSE "sell")
            /\ trade.side = "sell" => trade.position_after = Zero
            /\ trade.side = "buy" => HeldBeforeTrade(k) = Zero

\* a run recorded a buy, a sell and a second buy
C22_Witness ==
    /\ Len(order_engine.trades) = 3
    /\ order_engine.trades[3].side = "buy"
    /\ backtest.pc = "done"

\* C23 (SpecBacktest): after a buy Trade executed by run_backtest,
\* position_qty * close of that bar is at most max_position_pct *
\* equity_before of that bar, for every slippage and fee rate >= 0.
C23_PositionCap ==
    \A j \in 1..BarsDone :
        TradeOn(j, "buy") =>
            Le(Mul(order_engine.equity_points[j].position_qty, backtest.data[j].close),
               Mul(risk_manager.config.max_position_pct, EquityBefore(j)))

\* a buy under a cap of one half of the equity, with slippage and fees, on
\* a bar after the first, once an earlier position had been sold
C23_Witness ==
    /\ risk_manager.config.max_position_pct = R(1, 2)
    /\ order_engine.slippage_bps > 0
    /\ order_engine.fee_bps > 0
    /\ Len(order_engine.trades) = 3
    /\ \E j \in 2..BarsDone : TradeOn(j, "buy")

====
